---- MODULE Spec2Model ----
(***************************************************************************)
(* Project metadata resolution, one-shot build and watch cycle of the      *)
(* NovelAI script build system.  Two generations of the tool are in the    *)
(* repository and both are modelled:                                       *)
(*   "v3"  ensureProject / buildProject on plain objects (three-tier merge  *)
(*         of project.json, config.yaml and project.yaml);                  *)
(*   "v4"  loadProject / buildProject / watchProject on a YAML Document     *)
(*         read from project.yaml alone.                                    *)
(* A JavaScript object (and a YAML document) is an ordered sequence of      *)
(* <<key, value>> entries with distinct keys.                               *)
(***************************************************************************)
EXTENDS Integers, Sequences, FiniteSets, TLC

VARIABLES
    clock,        \* Date.now(), in ticks of 1/TicksPerSecond second
    projectJson,  \* file project.json  : [exists, ok, data]
    configYaml,   \* file config.yaml   : [exists, ok, data]
    projectYaml,  \* file project.yaml  : [exists, ok, data]
    bundle,       \* file dist/<name>.naiscript : [exists, header]
    tool,         \* generation of the tool that is run: "v3" or "v4"
    pc,           \* position of the running command
    project,      \* the in-memory Project: [meta, errors]
    loadResult,   \* outcome of the last load: "none", "ok", "error"
    buildResult,  \* outcome of the last buildProject: "none", "true", "threw"
    uuidCount,    \* number of randomUUID() calls made so far
    fresh,        \* [id, at]: the values generated during the last load
    cycle,        \* facts about the build cycle in progress or just ended
    prevBuild,    \* the successful persisting build before lastBuild
    lastBuild,    \* the last build that persisted the descriptor
    cli,          \* the running command: [cmd, types, fetched, exit, closed,
                  \* invalid, projectExists, said]; invalid: the bundler's
                  \* watcher has seen a watched file change and owes a build
                  \* cycle; projectExists: what checkExistingProject has
                  \* returned; said: "Project already exists" was printed
    runs,         \* the asynchronous calls in flight, one record per call
    disk          \* the other files: [types, src, index, script, imported];
                  \* script: the .naiscript file as text; imported: what the
                  \* import command has created

vars == <<clock, projectJson, configYaml, projectYaml, bundle, tool, pc, project,
          loadResult, buildResult, uuidCount, fresh, cycle, prevBuild, lastBuild,
          cli, runs, disk>>

\* ------------------------------------------------------------------ bounds
TicksPerSecond == 2
StartClock == 4
MaxClock == 7
MaxUUID == 2
MaxBuilds == 2
MaxRuns == 2

\* --------------------------------------------------------------- constants
COMPAT_VERSION == "naiscript-1.0"
DefaultMemoryLimit == 8
BaseName == "my-script"

\* ----------------------------------------------------- objects (ordered maps)
Keys(o) == {o[i][1] : i \in DOMAIN o}
Has(o, k) == k \in Keys(o)
Get(o, k) == o[CHOOSE i \in DOMAIN o : o[i][1] = k][2]
IsEntry(e, k) == e[1] = k
Delete(o, k) == SelectSeq(o, LAMBDA e : ~IsEntry(e, k))
SetKey(o, k, v) ==
    IF Has(o, k)
    THEN [i \in DOMAIN o |-> IF o[i][1] = k THEN <<k, v>> ELSE o[i]]
    ELSE Append(o, <<k, v>>)

\* { ...a, ...b }: b's entries overlaid on a's, new keys appended in b's order
RECURSIVE Spread(_, _)
Spread(a, b) ==
    IF b = <<>> THEN a
    ELSE Spread(SetKey(a, Head(b)[1], Head(b)[2]), Tail(b))

\* two objects agree on field k: both lack it, or both hold the same value
SameField(a, b, k) ==
    /\ Has(a, k) <=> Has(b, k)
    /\ Has(a, k) => Get(a, k) = Get(b, k)

\* ------------------------------------------------------------------- time
CurrentEpochS(now) == now \div TicksPerSecond

\* identifiers: <<"stored", n>> was written by somebody earlier,
\* <<"uuid", n>> is the n-th result of randomUUID() in this run
RandomUUID(n) == <<"uuid", n>>

\* ------------------------------------------------------------------ files
NoFile == [exists |-> FALSE, ok |-> FALSE, data |-> <<>>]
Malformed == [exists |-> TRUE, ok |-> FALSE, data |-> <<>>]
File(d) == [exists |-> TRUE, ok |-> TRUE, data |-> d]

\* project.json as the 1.x tool documented it: no id, no timestamps
JsonV1 ==
    << <<"name", "foo">>, <<"version", "1.0.0">>, <<"author", "me">>,
       <<"description", "bar">>, <<"license", "MIT">>,
       <<"sourceFiles", <<"src/index.ts">> >> >>
\* project.json as the 2.x tool wrote it
JsonV2 ==
    << <<"id", <<"stored", 1>> >>, <<"name", "foo">>, <<"version", "1.0.0">>,
       <<"createdAt", 1>>, <<"updatedAt", 1>>, <<"author", "me">>,
       <<"description", "bar">>, <<"license", "MIT">> >>
JsonFiles ==
    { NoFile, Malformed, File(JsonV1), File(JsonV2),
      File(Delete(JsonV1, "description")),
      File(SetKey(JsonV2, "license", "")),
      File(Delete(JsonV2, "license")),
      File(SetKey(SetKey(JsonV2, "config", <<"fromJson">>),
                  "compatibilityVersion", "naiscript-0.9")) }

ConfigFiles == { NoFile, Malformed, File(<<"item">>) }

YamlFull ==
    << <<"compatibilityVersion", COMPAT_VERSION>>, <<"id", <<"stored", 2>> >>,
       <<"name", "foo">>, <<"version", "2.0.0">>, <<"createdAt", 1>>,
       <<"author", "me">>, <<"description", "yaml">>,
       <<"memoryLimit", DefaultMemoryLimit>>, <<"updatedAt", 1>>,
       <<"config", <<"fromYaml">> >> >>
YamlFiles ==
    { NoFile, Malformed, File(YamlFull),
      File(SetKey(YamlFull, "compatibilityVersion", "naiscript-0.9")),
      File(<< <<"version", "2.0.0">> >>),
      File(Delete(Delete(YamlFull, "id"), "createdAt")),
      File(SetKey(YamlFull, "createdAt", 9)),
      File(SetKey(YamlFull, "updatedAt", 9)) }

\* yaml.parse / JSON.parse of a readable file; the text is the entry list
ParseFile(f) == f.data
\* yaml.stringify(meta) and Document.toString(): the entries in order
YamlStringify(meta) == File(meta)

\* ------------------------------------------------------- project resolution
\* faulty variant: the defaults seeded with an empty name instead of the base name
DefaultsNoSeed(id, now) ==
    << <<"compatibilityVersion", COMPAT_VERSION>>, <<"id", id>>,
       <<"name", "">>, <<"version", "0.0.0">>,
       <<"createdAt", CurrentEpochS(now)>>, <<"author", "Unknown">>,
       <<"description", "">>, <<"memoryLimit", DefaultMemoryLimit>>,
       <<"updatedAt", CurrentEpochS(now)>>, <<"config", <<>> >> >>

\* the defaults ensureProject starts from
Defaults(id, now) ==
    << <<"compatibilityVersion", COMPAT_VERSION>>, <<"id", id>>,
       <<"name", BaseName>>, <<"version", "0.0.0">>,
       <<"createdAt", CurrentEpochS(now)>>, <<"author", "Unknown">>,
       <<"description", "">>, <<"memoryLimit", DefaultMemoryLimit>>,
       <<"updatedAt", CurrentEpochS(now)>>, <<"config", <<>> >> >>

\* readFile(..).then(parse).catch(() => ({})): a missing file and a file that
\* does not parse both give the empty object (the empty array for config.yaml)
ReadOrEmpty(f) == IF f.exists /\ f.ok THEN ParseFile(f) ELSE <<>>

\* JavaScript string conversion of a possibly missing string field
Str(o, k) == IF Has(o, k) THEN Get(o, k) ELSE "undefined"
\* JavaScript truthiness of a possibly missing string field
Truthy(o, k) == Has(o, k) /\ Get(o, k) # ""

\* faulty variant: the license key is left in the record
MigrateKeepsLicense(meta) ==
    LET dropped == Delete(meta, "sourceFiles")
    IN  IF Truthy(dropped, "license")
        THEN SetKey(dropped, "description",
                    Str(dropped, "description") \o " License: "
                        \o Get(dropped, "license"))
        ELSE dropped

\* delete meta.sourceFiles; if (meta.license) description += ...; delete meta.license
MigrateLegacy(meta) ==
    LET dropped == Delete(meta, "sourceFiles")
        merged == IF Truthy(dropped, "license")
                  THEN SetKey(dropped, "description",
                              Str(dropped, "description") \o " License: "
                                  \o Get(dropped, "license"))
                  ELSE dropped
    IN  Delete(merged, "license")

\* the three-tier overlay of ensureProject
EnsureMeta(json, config, yaml, id, now) ==
    LET legacy == MigrateLegacy(ReadOrEmpty(json))
        merged == Spread(Defaults(id, now), legacy)
        withConfig == SetKey(merged, "config", ReadOrEmpty(config))
    IN  Spread(withConfig, ReadOrEmpty(yaml))

NoRuns == <<>>
\* external/script-types.d.ts: whether it exists, its mtime (in ticks, like
\* the clock) and how many times it was written since the model started
NoTypes == [exists |-> FALSE, mtime |-> 0, writes |-> 0]
\* a text file that is not there
NoScript == [exists |-> FALSE, text |-> <<>>]
\* nothing imported: no directory, no project.yaml, no src/index.ts
NoImport == [dir |-> "", yaml |-> NoFile, index |-> NoScript]
\* a directory with no src/ and no src/index.ts, no bundle, nothing imported
NoDisk ==
    [types |-> NoTypes, src |-> FALSE, index |-> "none", script |-> NoScript,
     imported |-> NoImport]
NoProject == [name |-> "", meta |-> <<>>, errors |-> FALSE]
\* what is remembered of a build cycle: the descriptor on disk and the record
\* in memory when it began, when updatedAt was stamped, how the bundler ended
\* ("pending", "ok", "failed"), whether writeFile(project.yaml) was called and
\* whether it succeeded, whether the cycle before it failed to write, whether
\* project.yaml was edited by hand since the cycle began, whether the cycle
\* began after such an edit, whether a bundler error was printed, and what
\* src/index.ts held when the cycle began
NoCycle ==
    [kind |-> "none", yamlBefore |-> NoFile, metaBefore |-> <<>>, stampAt |-> 0,
     bundler |-> "pending", attempted |-> FALSE, written |-> FALSE,
     afterFailedWrite |-> FALSE, edited |-> FALSE, afterEdit |-> FALSE,
     reported |-> FALSE, indexBefore |-> "none"]
\* a build that persisted the descriptor: its number, the record it started
\* from, the descriptor it wrote and the time of its updatedAt stamp
NoBuild == [n |-> 0, from |-> <<>>, yaml |-> NoFile, at |-> 0]

CanLoad == pc \in {"init", "loaded", "exited"}

\* v3: ensureProject(projectPath)
EnsureProject ==
    /\ tool = "v3"
    /\ CanLoad
    /\ uuidCount < MaxUUID
    /\ uuidCount' = uuidCount + 1
    /\ fresh' = [id |-> RandomUUID(uuidCount + 1), at |-> CurrentEpochS(clock)]
    /\ project' = [name |-> BaseName,
                   meta |-> EnsureMeta(projectJson, configYaml, projectYaml,
                                       RandomUUID(uuidCount + 1), clock),
                   errors |-> FALSE]
    /\ cli' = [cli EXCEPT !.cmd = "build", !.exit = "running"]
    /\ loadResult' = "ok"
    /\ pc' = "loaded"
    /\ UNCHANGED <<disk, runs, clock, projectJson, configYaml, projectYaml, bundle, tool,
                   buildResult, cycle, prevBuild, lastBuild>>

\* ------------------------------------------------- v4 commands: type cache
\* external/script-types.d.ts: "absent", "fresh" (younger than 24 hours) or
\* "stale"
TypesStates == {"absent", "fresh", "stale"}
Commands == {"build", "watch"}
NoCommand ==
    [cmd |-> "none", types |-> "fresh", fetched |-> "none", exit |-> "running",
     closed |-> FALSE, invalid |-> FALSE, projectExists |-> "unknown",
     said |-> FALSE]
\* a build or watch command is started in a new process
Started(c) ==
    [cmd |-> c, types |-> cli.types, fetched |-> "none", exit |-> "running",
     closed |-> FALSE, invalid |-> FALSE, projectExists |-> "unknown",
     said |-> FALSE]
AtPrompt == pc \in {"init", "exited"}
\* a new process remembers nothing of the last one; of its last build cycle
\* only the fate of the descriptor write is kept on record
NewProcess ==
    /\ project' = NoProject
    /\ loadResult' = "none"
    /\ buildResult' = "none"
    /\ cycle' = [NoCycle EXCEPT !.attempted = cycle.attempted,
                                !.written = cycle.written]

\* ensureTypesFile: stat succeeds and the file is younger than 24 hours
TypesCached ==
    /\ tool = "v4"
    /\ AtPrompt
    /\ cli.types = "fresh"
    /\ \E c \in Commands : cli' = Started(c)
    /\ pc' = "typed"
    /\ NewProcess
    /\ UNCHANGED <<disk, runs, clock, projectJson, configYaml, projectYaml, bundle, tool,
                   uuidCount, fresh, prevBuild, lastBuild>>

\* fetchExternalTypes resolves: called in the try block for a stale file, in
\* the catch block for an absent file or after the first call has thrown
TypesFetchOk ==
    /\ tool = "v4"
    /\ \/ AtPrompt /\ cli.types # "fresh"
       \/ pc = "refetch"
    /\ \E c \in Commands :
          cli' = [(IF pc = "refetch" THEN cli ELSE Started(c))
                     EXCEPT !.types = "fresh", !.fetched = "ok"]
    /\ pc' = "typed"
    /\ NewProcess
    /\ UNCHANGED <<disk, runs, clock, projectJson, configYaml, projectYaml, bundle, tool,
                   uuidCount, fresh, prevBuild, lastBuild>>

\* fetchExternalTypes throws.  In the try block (stale file) the catch block
\* calls it once more; thrown from the catch block it rejects ensureTypesFile,
\* which the command awaits outside its try: the process dies of the unhandled
\* rejection before loadProject is called
TypesFetchFail ==
    /\ tool = "v4"
    /\ \/ AtPrompt /\ cli.types # "fresh"
       \/ pc = "refetch"
    /\ \E c \in Commands :
          IF AtPrompt /\ cli.types = "stale"
          THEN /\ cli' = [Started(c) EXCEPT !.fetched = "failed"]
               /\ pc' = "refetch"
          ELSE /\ cli' = [(IF pc = "refetch" THEN cli ELSE Started(c))
                             EXCEPT !.fetched = "failed", !.exit = "nonzero"]
               /\ pc' = "exited"
    /\ NewProcess
    /\ UNCHANGED <<disk, runs, clock, projectJson, configYaml, projectYaml, bundle, tool,
                   uuidCount, fresh, prevBuild, lastBuild>>

\* v4: loadProject(projectPath); parseDocument records syntax errors in the
\* Document instead of throwing, only a failed readFile rejects
LoadProject ==
    /\ tool = "v4"
    /\ pc = "typed"
    /\ IF projectYaml.exists
       THEN /\ project' = [name |-> BaseName,
                           meta |-> ReadOrEmpty(projectYaml),
                           errors |-> ~projectYaml.ok]
            /\ loadResult' = "ok"
            /\ pc' = "loaded"
            \* ensureTypesFile has returned: its outcome is of no further use
            /\ cli' = [cli EXCEPT !.fetched = "none"]
       ELSE /\ project' = NoProject
            /\ loadResult' = "error"
            /\ pc' = "exited"
            \* build: catch (err) { ...; process.exit(1) }; watch: the catch
            \* only logs and the process ends with nothing left to run
            /\ cli' = [cli EXCEPT !.exit = IF cli.cmd = "build"
                                           THEN "nonzero" ELSE "zero"]
    /\ UNCHANGED <<disk, runs, clock, projectJson, configYaml, projectYaml, bundle, tool,
                   buildResult, uuidCount, fresh, cycle, prevBuild, lastBuild>>


\* what the legacy files may have become after project.yaml was first written
LegacyAfter == { NoFile, File(SetKey(JsonV2, "homepage", "example.org")) }

\* between two runs of the 3.x tool somebody changes project.json and
\* config.yaml of a project that already has its project.yaml
LegacyEdited ==
    /\ tool = "v3"
    /\ pc = "exited"
    /\ lastBuild.n > 0
    /\ projectJson \notin LegacyAfter
    /\ projectJson' \in LegacyAfter
    /\ configYaml' \in {NoFile, File(<<"item">>)}
    /\ UNCHANGED <<disk, cli, runs, clock, projectYaml, bundle, tool, pc, project,
                   loadResult, buildResult, uuidCount, fresh, cycle, prevBuild,
                   lastBuild>>

\* ------------------------------------------------------------ one-shot build
\* the metadata serialized between the header's markers
GenerateScriptHeader(t, meta) ==
    IF t = "v3"
    THEN Spread(meta, << <<"compatibilityVersion", COMPAT_VERSION>> >>)
    ELSE meta

\* the characters of the name strings that occur
Spell(str) ==
    CASE str = "foo" -> <<"f", "o", "o">>
      [] str = "My Script" -> <<"M", "y", " ", "S", "c", "r", "i", "p", "t">>
      [] str = "my-script" -> <<"m", "y", "-", "s", "c", "r", "i", "p", "t">>
      [] OTHER -> <<>>
IsSpace(c) == c \in {" ", "\t"}
ToLowerCase(c) ==
    CASE c = "M" -> "m"
      [] c = "S" -> "s"
      [] OTHER -> c
\* name.toLowerCase().replaceAll(/\s+/g, "-"), character by character: a run of
\* white space becomes one hyphen
RECURSIVE KebabChars(_, _)
KebabChars(chars, afterSpace) ==
    IF chars = <<>> THEN ""
    ELSE IF IsSpace(Head(chars))
         THEN (IF afterSpace THEN "" ELSE "-") \o KebabChars(Tail(chars), TRUE)
         ELSE ToLowerCase(Head(chars)) \o KebabChars(Tail(chars), FALSE)
KebabCase(name) == KebabChars(Spell(name), FALSE)

\* rollupOutputOptions: entryFileNames = `${project.name}.naiscript`
EntryFileNames(p) == p.name \o ".naiscript"

BeginCycle(kind, before) ==
    [kind |-> kind, yamlBefore |-> projectYaml, metaBefore |-> before,
     stampAt |-> clock, bundler |-> "pending", attempted |-> FALSE,
     written |-> FALSE,
     afterFailedWrite |-> cycle.attempted /\ ~cycle.written,
     edited |-> FALSE, afterEdit |-> cycle.edited, reported |-> FALSE,
     indexBefore |-> disk.index]

Persisted(from, file, at) ==
    [n |-> lastBuild.n + 1, from |-> from, yaml |-> file, at |-> at]

\* faulty variant: the descriptor is written when updatedAt is stamped, before the
\* bundler has run
BuildStampPersists ==
    /\ pc = "loaded"
    /\ loadResult = "ok"
    /\ cli.cmd = "build"
    /\ lastBuild.n < MaxBuilds
    /\ project' = [project EXCEPT
                     !.meta = SetKey(@, "updatedAt", CurrentEpochS(clock))]
    /\ projectYaml' = YamlStringify(project'.meta)
    /\ cycle' = BeginCycle("build", project.meta)
    /\ buildResult' = "none"
    /\ pc' = "bundling"
    /\ UNCHANGED <<disk, cli, runs, clock, projectJson, configYaml, bundle, tool,
                   loadResult, uuidCount, fresh, prevBuild, lastBuild>>

\* faulty variant: createdAt is stamped together with updatedAt
BuildStampRestamps ==
    /\ pc = "loaded"
    /\ loadResult = "ok"
    /\ cli.cmd = "build"
    /\ lastBuild.n < MaxBuilds
    /\ project' = [project EXCEPT
                     !.meta = SetKey(SetKey(@, "updatedAt", CurrentEpochS(clock)),
                                     "createdAt", CurrentEpochS(clock))]
    /\ cycle' = BeginCycle("build", project.meta)
    /\ buildResult' = "none"
    /\ pc' = "bundling"
    /\ UNCHANGED <<disk, cli, runs, clock, projectJson, configYaml, projectYaml, bundle, tool,
                   loadResult, uuidCount, fresh, prevBuild, lastBuild>>

\* buildProject: meta.updatedAt = currentEpochS(), then rollup is started
BuildStamp ==
    /\ pc = "loaded"
    /\ loadResult = "ok"
    /\ cli.cmd = "build"
    /\ lastBuild.n < MaxBuilds
    /\ project' = [project EXCEPT
                     !.meta = SetKey(@, "updatedAt", CurrentEpochS(clock))]
    /\ cycle' = BeginCycle("build", project.meta)
    /\ buildResult' = "none"
    /\ pc' = "bundling"
    /\ UNCHANGED <<disk, cli, runs, clock, projectJson, configYaml, projectYaml, bundle, tool,
                   loadResult, uuidCount, fresh, prevBuild, lastBuild>>

\* rollup(..) and bundle.write(..) succeed: the banner is generated from
\* project.meta (a Document with errors cannot be stringified) and the bundle
\* is written
BundleOk ==
    /\ pc = "bundling"
    /\ ~project.errors
    /\ bundle' = [exists |-> TRUE, file |-> EntryFileNames(project),
                  header |-> GenerateScriptHeader(tool, project.meta)]
    /\ cycle' = [cycle EXCEPT !.bundler = "ok"]
    /\ pc' = "writing"
    /\ UNCHANGED <<disk, cli, runs, clock, projectJson, configYaml, projectYaml, tool, project,
                   loadResult, buildResult, uuidCount, fresh, prevBuild,
                   lastBuild>>

\* faulty variant: the command's catch logs the error and exits with 0
BundleFailExitsZero ==
    /\ pc = "bundling"
    \* console.log("Build error:", err) in the command's catch
    /\ cycle' = [cycle EXCEPT !.bundler = "failed", !.reported = TRUE]
    /\ buildResult' = "threw"
    /\ pc' = "exited"
    /\ cli' = [cli EXCEPT !.exit = "zero"]
    /\ UNCHANGED <<disk, runs, clock, projectJson, configYaml, projectYaml, bundle, tool,
                   project, loadResult, uuidCount, fresh, prevBuild, lastBuild>>

\* rollup(..) or bundle.write(..) rejects: buildProject rejects with it
BundleFail ==
    /\ pc = "bundling"
    \* console.log("Build error:", err) in the command's catch
    /\ cycle' = [cycle EXCEPT !.bundler = "failed", !.reported = TRUE]
    /\ buildResult' = "threw"
    /\ pc' = "exited"
    /\ cli' = [cli EXCEPT !.exit = "nonzero"]
    /\ UNCHANGED <<disk, runs, clock, projectJson, configYaml, projectYaml, bundle, tool,
                   project, loadResult, uuidCount, fresh, prevBuild, lastBuild>>

\* writeFile(project.yaml, serialized meta) succeeds; return true
WriteOk ==
    /\ pc = "writing"
    /\ projectYaml' = YamlStringify(project.meta)
    /\ cycle' = [cycle EXCEPT !.attempted = TRUE, !.written = TRUE]
    /\ prevBuild' = lastBuild
    /\ lastBuild' = Persisted(cycle.metaBefore, YamlStringify(project.meta),
                             cycle.stampAt)
    /\ buildResult' = "true"
    /\ pc' = "exited"
    /\ cli' = [cli EXCEPT !.exit = "zero"]
    /\ UNCHANGED <<disk, runs, clock, projectJson, configYaml, bundle, tool, project,
                   loadResult, uuidCount, fresh>>

\* faulty variant: the rejection of writeFile is not caught: buildProject rejects
WriteFailThrows ==
    /\ pc = "writing"
    /\ cycle' = [cycle EXCEPT !.attempted = TRUE]
    /\ buildResult' = "threw"
    /\ pc' = "exited"
    /\ cli' = [cli EXCEPT !.exit = "nonzero"]
    /\ UNCHANGED <<disk, runs, clock, projectJson, configYaml, projectYaml, bundle, tool,
                   project, loadResult, uuidCount, fresh, prevBuild, lastBuild>>

\* writeFile(project.yaml, ..) rejects: .catch(console.error); return true
WriteFail ==
    /\ pc = "writing"
    /\ cycle' = [cycle EXCEPT !.attempted = TRUE]
    /\ buildResult' = "true"
    /\ pc' = "exited"
    /\ cli' = [cli EXCEPT !.exit = "zero"]
    /\ UNCHANGED <<disk, runs, clock, projectJson, configYaml, projectYaml, bundle, tool,
                   project, loadResult, uuidCount, fresh, prevBuild, lastBuild>>

\* ---------------------------------------------------------------- watch mode
\* what every invocation of the "event" handler computes first: project.yaml
\* read from disk as a Document, with updatedAt set to the current time
CurrentProjectMeta ==
    [name |-> project.name,
     meta |-> SetKey(ReadOrEmpty(projectYaml), "updatedAt", CurrentEpochS(clock)),
     errors |-> ~projectYaml.ok]

\* watchProject(project): the bundler's watcher is created
WatchOpen ==
    /\ tool = "v4"
    /\ pc = "loaded"
    /\ loadResult = "ok"
    /\ cli.cmd = "watch"
    \* rollup's watcher schedules the first run when it is created
    /\ cli' = [cli EXCEPT !.invalid = TRUE]
    /\ pc' = "w_idle"
    /\ UNCHANGED <<disk, runs, clock, projectJson, configYaml, projectYaml, bundle, tool,
                   project, loadResult, buildResult, uuidCount, fresh, cycle,
                   prevBuild, lastBuild>>

\* the descriptor fields a user changes by hand in the scenarios followed
HandEdits(d) ==
    { SetKey(d, "name", "My Script"), SetKey(d, "version", "2.1.0") }

\* project.yaml is edited and saved during a watch session, while the watcher
\* waits or while a cycle runs; the file is on the bundler's watch list
\* (addWatchFile in the watch-project-yaml plugin).  Edits are followed as
\* long as the cycle they cause is within MaxBuilds.
EditYaml ==
    /\ pc \in {"w_idle", "w_building", "w_bundled", "w_error"}
    /\ projectYaml.exists /\ projectYaml.ok
    /\ ~cycle.edited
    /\ lastBuild.n + (IF pc = "w_idle" THEN 0 ELSE 1) < MaxBuilds
    /\ \E d \in HandEdits(projectYaml.data) :
          /\ d # projectYaml.data
          /\ projectYaml' = File(d)
    /\ cycle' = [cycle EXCEPT !.edited = TRUE]
    /\ cli' = [cli EXCEPT !.invalid = TRUE]
    /\ UNCHANGED <<disk, runs, clock, projectJson, configYaml, bundle, tool, pc,
                   project, loadResult, buildResult, uuidCount, fresh, prevBuild,
                   lastBuild>>

\* a source file of the bundle is saved while the watcher waits (what a save
\* during a run leads to is the bundler's business)
SourceChange ==
    /\ pc = "w_idle"
    /\ ~cli.invalid
    /\ cli' = [cli EXCEPT !.invalid = TRUE]
    /\ UNCHANGED <<disk, runs, clock, projectJson, configYaml, projectYaml, bundle, tool, pc,
                   project, loadResult, buildResult, uuidCount, fresh, cycle,
                   prevBuild, lastBuild>>

\* faulty variant: START stamps the record held in memory instead of
\* replacing it with the one read from disk
WatchStartKeepsMeta ==
    /\ pc = "w_idle"
    /\ cli.invalid
    /\ lastBuild.n < MaxBuilds
    /\ project' = [project EXCEPT
                     !.meta = SetKey(@, "updatedAt", CurrentEpochS(clock))]
    /\ cycle' = BeginCycle("watch", ReadOrEmpty(projectYaml))
    /\ cli' = [cli EXCEPT !.invalid = FALSE]
    /\ pc' = "w_building"
    /\ UNCHANGED <<disk, runs, clock, projectJson, configYaml, projectYaml, bundle, tool,
                   loadResult, buildResult, uuidCount, fresh, prevBuild,
                   lastBuild>>

\* the watcher starts the run it owes; event START: project.meta =
\* currentProjectMeta
WatchStart ==
    /\ pc = "w_idle"
    /\ cli.invalid
    /\ lastBuild.n < MaxBuilds
    /\ project' = CurrentProjectMeta
    \* the record this cycle works on is the one just read from disk
    /\ cycle' = BeginCycle("watch", ReadOrEmpty(projectYaml))
    /\ cli' = [cli EXCEPT !.invalid = FALSE]
    /\ pc' = "w_building"
    /\ UNCHANGED <<disk, runs, clock, projectJson, configYaml, projectYaml, bundle, tool,
                   loadResult, buildResult, uuidCount, fresh, prevBuild,
                   lastBuild>>

\* the bundler writes the bundle, its banner taken from project.meta
WatchBundleOk ==
    /\ pc = "w_building"
    /\ ~project.errors
    /\ bundle' = [exists |-> TRUE, file |-> EntryFileNames(project),
                  header |-> GenerateScriptHeader(tool, project.meta)]
    /\ cycle' = [cycle EXCEPT !.bundler = "ok"]
    /\ pc' = "w_bundled"
    /\ UNCHANGED <<disk, cli, runs, clock, projectJson, configYaml, projectYaml, tool, project,
                   loadResult, buildResult, uuidCount, fresh, prevBuild,
                   lastBuild>>

\* event ERROR: the handler reads and stamps a Document and matches no case
WatchBundleError ==
    /\ pc = "w_building"
    /\ cycle' = [cycle EXCEPT !.bundler = "failed"]
    /\ pc' = "w_error"
    /\ UNCHANGED <<disk, cli, runs, clock, projectJson, configYaml, projectYaml, bundle, tool,
                   project, loadResult, buildResult, uuidCount, fresh, prevBuild,
                   lastBuild>>

\* faulty variant: END writes back the record held in memory since START
WatchEndWritesMemory ==
    /\ pc \in {"w_bundled", "w_error"}
    /\ ~project.errors
    /\ projectYaml' = YamlStringify(SetKey(project.meta, "updatedAt",
                                           CurrentEpochS(clock)))
    /\ cycle' = [cycle EXCEPT !.attempted = TRUE, !.written = TRUE]
    /\ IF cycle.bundler = "ok"
       THEN /\ prevBuild' = lastBuild
            /\ lastBuild' = Persisted(ReadOrEmpty(projectYaml), projectYaml', clock)
       ELSE UNCHANGED <<prevBuild, lastBuild>>
    /\ cli' = [cli EXCEPT !.invalid = TRUE]
    /\ pc' = "w_idle"
    /\ UNCHANGED <<disk, runs, clock, projectJson, configYaml, bundle, tool, project,
                   loadResult, buildResult, uuidCount, fresh>>

\* event END, writeFile succeeds: the Document just read is written back.
\* project.yaml is on the watcher's list, so the write is a change the watcher
\* sees like any other
WatchEnd ==
    /\ pc \in {"w_bundled", "w_error"}
    /\ ~CurrentProjectMeta.errors
    /\ projectYaml' = YamlStringify(CurrentProjectMeta.meta)
    /\ cycle' = [cycle EXCEPT !.attempted = TRUE, !.written = TRUE]
    /\ IF cycle.bundler = "ok"
       THEN /\ prevBuild' = lastBuild
            /\ lastBuild' = Persisted(ReadOrEmpty(projectYaml),
                                      YamlStringify(CurrentProjectMeta.meta), clock)
       ELSE UNCHANGED <<prevBuild, lastBuild>>
    /\ cli' = [cli EXCEPT !.invalid = TRUE]
    /\ pc' = "w_idle"
    /\ UNCHANGED <<disk, runs, clock, projectJson, configYaml, bundle, tool, project,
                   loadResult, buildResult, uuidCount, fresh>>

\* event END, nothing written: writeFile rejects (logged), or the Document
\* carries errors and toString() throws before writeFile is called
WatchEndWriteFail ==
    /\ pc \in {"w_bundled", "w_error"}
    /\ cycle' = [cycle EXCEPT !.attempted = ~CurrentProjectMeta.errors]
    /\ pc' = "w_idle"
    /\ UNCHANGED <<disk, cli, runs, clock, projectJson, configYaml, projectYaml, bundle, tool,
                   project, loadResult, buildResult, uuidCount, fresh, prevBuild,
                   lastBuild>>

\* the bundler goes back to waiting after an ERROR without emitting END
WatchSettle ==
    /\ pc = "w_error"
    /\ pc' = "w_idle"
    /\ UNCHANGED <<disk, cli, runs, clock, projectJson, configYaml, projectYaml, bundle, tool,
                   project, loadResult, buildResult, uuidCount, fresh, cycle,
                   prevBuild, lastBuild>>

WatchPcs == {"w_idle", "w_building", "w_bundled", "w_error"}

\* faulty variant: the signal handler exits without closing the watcher
WatchCloseNoRelease ==
    /\ pc \in WatchPcs
    /\ cli' = [cli EXCEPT !.exit = "zero"]
    /\ pc' = "exited"
    /\ UNCHANGED <<disk, runs, clock, projectJson, configYaml, projectYaml, bundle, tool,
                   project, loadResult, buildResult, uuidCount, fresh, cycle,
                   prevBuild, lastBuild>>

\* SIGINT / SIGTERM / SIGQUIT, at any point of the session: watcher.close();
\* process.exit(0)
WatchClose ==
    /\ pc \in WatchPcs
    /\ cli' = [cli EXCEPT !.closed = TRUE, !.exit = "zero"]
    /\ pc' = "exited"
    /\ UNCHANGED <<disk, runs, clock, projectJson, configYaml, projectYaml, bundle, tool,
                   project, loadResult, buildResult, uuidCount, fresh, cycle,
                   prevBuild, lastBuild>>

\* the clock never runs backwards
Tick ==
    /\ clock < MaxClock
    /\ clock' = clock + 1
    /\ UNCHANGED <<disk, cli, runs, projectJson, configYaml, projectYaml, bundle, tool, pc, project,
                   loadResult, buildResult, uuidCount, fresh, cycle, prevBuild,
                   lastBuild>>

\* ------------------------------------ watch mode of the fs.watch generation
\* build --watch of the 3.0 tool: fs.watch on the project directory calls
\* buildOne for every event on a .ts file, and watch() itself calls buildOne
\* once for the initial build.  A call is "idle" (not made yet), "discover"
\* (awaiting discoverProjects), "bundling" (record loaded and stamped, rollup
\* running), "writing" (bundle written, awaiting writeFile) or "done".
IdleRun == [pc |-> "idle", meta |-> <<>>]
InFlight(r) == runs[r].pc \in {"discover", "bundling", "writing"}

\* the fs.watch callback (or the initial build) calls buildOne(projectName)
FsChange ==
    /\ pc = "fs_watch"
    /\ \E r \in DOMAIN runs :
          /\ runs[r].pc = "idle"
          /\ runs' = [runs EXCEPT ![r].pc = "discover"]
    /\ UNCHANGED <<disk, cli, clock, projectJson, configYaml, projectYaml, bundle, tool, pc,
                   project, loadResult, buildResult, uuidCount, fresh, cycle,
                   prevBuild, lastBuild>>

\* discoverProjects resolves (ensureProject has read the three files) and
\* buildProject stamps updatedAt on the record of this call
FsEnsure ==
    /\ pc = "fs_watch"
    /\ uuidCount < MaxRuns
    /\ \E r \in DOMAIN runs :
          /\ runs[r].pc = "discover"
          /\ runs' = [runs EXCEPT
                ![r] = [pc |-> "bundling",
                        meta |-> SetKey(EnsureMeta(projectJson, configYaml,
                                                   projectYaml,
                                                   RandomUUID(uuidCount + 1),
                                                   clock),
                                        "updatedAt", CurrentEpochS(clock))]]
    /\ uuidCount' = uuidCount + 1
    /\ UNCHANGED <<disk, cli, clock, projectJson, configYaml, projectYaml, bundle, tool, pc,
                   project, loadResult, buildResult, fresh, cycle, prevBuild,
                   lastBuild>>

\* rollup and bundle.write resolve: the bundle carries this call's record
FsBundleOk ==
    /\ pc = "fs_watch"
    /\ \E r \in DOMAIN runs :
          /\ runs[r].pc = "bundling"
          /\ runs' = [runs EXCEPT ![r].pc = "writing"]
          /\ bundle' = [exists |-> TRUE, file |-> BaseName \o ".naiscript",
                        header |-> GenerateScriptHeader(tool, runs[r].meta)]
    /\ UNCHANGED <<disk, cli, clock, projectJson, configYaml, projectYaml, tool, pc,
                   project, loadResult, buildResult, uuidCount, fresh, cycle,
                   prevBuild, lastBuild>>

\* rollup rejects: buildOne catches, logs and returns false
FsBundleFail ==
    /\ pc = "fs_watch"
    /\ \E r \in DOMAIN runs :
          /\ runs[r].pc = "bundling"
          /\ runs' = [runs EXCEPT ![r].pc = "done"]
    /\ UNCHANGED <<disk, cli, clock, projectJson, configYaml, projectYaml, bundle, tool, pc,
                   project, loadResult, buildResult, uuidCount, fresh, cycle,
                   prevBuild, lastBuild>>

\* writeFile(project.yaml, yaml.stringify(meta)) of this call resolves
FsWriteOk ==
    /\ pc = "fs_watch"
    /\ \E r \in DOMAIN runs :
          /\ runs[r].pc = "writing"
          /\ runs' = [runs EXCEPT ![r].pc = "done"]
          /\ projectYaml' = YamlStringify(runs[r].meta)
    /\ UNCHANGED <<disk, cli, clock, projectJson, configYaml, bundle, tool, pc,
                   project, loadResult, buildResult, uuidCount, fresh, cycle,
                   prevBuild, lastBuild>>

\* writeFile rejects: caught and logged
FsWriteFail ==
    /\ pc = "fs_watch"
    /\ \E r \in DOMAIN runs :
          /\ runs[r].pc = "writing"
          /\ runs' = [runs EXCEPT ![r].pc = "done"]
    /\ UNCHANGED <<disk, cli, clock, projectJson, configYaml, projectYaml, bundle, tool, pc,
                   project, loadResult, buildResult, uuidCount, fresh, cycle,
                   prevBuild, lastBuild>>

Init ==
    /\ clock = StartClock
    /\ tool \in {"v3", "v4"}
    /\ projectJson \in JsonFiles
    /\ configYaml \in ConfigFiles
    /\ projectYaml \in YamlFiles
    \* v4 never opens project.json or config.yaml: a directory without
    \* legacy files stands for all of them
    /\ tool = "v4" => /\ projectJson = NoFile
                      /\ configYaml = NoFile
    /\ bundle = [exists |-> FALSE, file |-> "", header |-> <<>>]
    /\ pc = "init"
    /\ project = NoProject
    /\ loadResult = "none"
    /\ buildResult = "none"
    /\ uuidCount = 0
    /\ fresh = [id |-> RandomUUID(0), at |-> 0]
    /\ cycle = NoCycle
    /\ prevBuild = NoBuild
    /\ lastBuild = NoBuild
    /\ cli \in {[NoCommand EXCEPT !.types = t] : t \in TypesStates}
    \* the 3.x commands do not look at the age of the type cache
    /\ tool = "v3" => cli = NoCommand
    /\ runs = NoRuns
    /\ disk = NoDisk

Next ==
    \/ EnsureProject
    \/ LegacyEdited
    \/ TypesCached
    \/ TypesFetchOk
    \/ TypesFetchFail
    \/ LoadProject
    \/ BuildStamp
    \/ BundleOk
    \/ BundleFail
    \/ WriteOk
    \/ WriteFail
    \/ WatchOpen
    \/ EditYaml
    \/ SourceChange
    \/ WatchStart
    \/ WatchBundleOk
    \/ WatchBundleError
    \/ WatchEnd
    \/ WatchEndWriteFail
    \/ WatchSettle
    \/ WatchClose
    \/ Tick

Spec == Init /\ [][Next]_vars

\* ------------------------------------------------------ the new command
\* what the user answers to the prompts
Answers ==
    [name |-> "My Script", author |-> "me", description |-> "bar",
     license |-> "MIT"]
INDEX_TS_TEMPLATE == "template"

\* the paths checkExistingProject probes, in the order of the array
ProbedPaths ==
    IF tool = "v3" THEN <<"src", "project.json", "project.yaml", "config.yaml">>
    ELSE <<"src", "project.yaml">>
\* fs.access(path, F_OK) fulfils
PathExists(path) ==
    CASE path = "src" -> disk.src
      [] path = "project.json" -> projectJson.exists
      [] path = "project.yaml" -> projectYaml.exists
      [] path = "config.yaml" -> configYaml.exists

\* Promise.any over the checks: fulfilled by the first check that fulfils,
\* rejected when all have rejected
PromiseAny(checks) ==
    IF \E i \in DOMAIN checks : checks[i].pc = "fulfilled" THEN "true"
    ELSE IF \A i \in DOMAIN checks : checks[i].pc = "rejected" THEN "false"
    ELSE "unknown"

\* Promise.race over the checks: settled the way the first check to settle
\* has settled, a rejection included; first is that check's outcome
PromiseRace(first) ==
    IF first = "fulfilled" THEN "true" ELSE "false"

\* the prompts are answered; checkExistingProject starts one access check
\* per path, all at once
NewPrompt ==
    /\ pc = "new"
    /\ cli' = [NoCommand EXCEPT !.cmd = "new"]
    /\ runs' = [i \in DOMAIN ProbedPaths |->
                   [path |-> ProbedPaths[i], pc |-> "pending"]]
    /\ cycle' = BeginCycle("new", ReadOrEmpty(projectYaml))
    /\ pc' = "new_checking"
    /\ UNCHANGED <<disk, clock, projectJson, configYaml, projectYaml, bundle,
                   tool, project, loadResult, buildResult, uuidCount, fresh,
                   prevBuild, lastBuild>>

\* one access check settles, in any order; the combined promise (Promise.any
\* in 3.x, Promise.race in 4.x) settles with it when it can
AccessSettle ==
    /\ pc \in {"new_checking", "new_writing", "new_done"}
    /\ \E r \in DOMAIN runs :
          /\ runs[r].pc = "pending"
          /\ LET outcome == IF PathExists(runs[r].path)
                            THEN "fulfilled" ELSE "rejected"
                 settled == [runs EXCEPT ![r].pc = outcome]
             IN  /\ runs' = settled
                 /\ cli' = [cli EXCEPT !.projectExists =
                               IF @ # "unknown" THEN @
                               ELSE IF tool = "v3" THEN PromiseAny(settled)
                               ELSE PromiseRace(outcome)]
    /\ UNCHANGED <<disk, clock, projectJson, configYaml, projectYaml, bundle,
                   tool, pc, project, loadResult, buildResult, uuidCount, fresh,
                   cycle, prevBuild, lastBuild>>

\* 4.x: new Document({...}) from the answers
NewDocument(id, now) ==
    << <<"compatibilityVersion", COMPAT_VERSION>>, <<"id", id>>,
       <<"name", Answers.name>>, <<"version", "0.0.0">>,
       <<"createdAt", CurrentEpochS(now)>>, <<"author", Answers.author>>,
       <<"description", Answers.description \o " License: " \o Answers.license>>,
       <<"memoryLimit", DefaultMemoryLimit>>,
       <<"updatedAt", CurrentEpochS(now)>>, <<"config", <<>> >> >>
\* 3.x: ensureProject(projectPath), then name, author and description from
\* the answers
NewFromEnsure(id, now) ==
    SetKey(SetKey(SetKey(EnsureMeta(projectJson, configYaml, projectYaml, id, now),
                         "name", Answers.name),
                  "author", Answers.author),
           "description", Answers.description \o " License: " \o Answers.license)

\* checkExistingProject has returned.  if (projectExists) console.error(..);
\* 3.x then returns ensureProject(projectPath); 4.x has no return there.  Then
\* mkdir(src, recursive) and the record to write is made
NewDecide ==
    /\ pc = "new_checking"
    /\ cli.projectExists # "unknown"
    /\ uuidCount < MaxUUID
    /\ cli' = [cli EXCEPT !.said = cli.projectExists = "true"]
    /\ uuidCount' = uuidCount + 1
    /\ fresh' = [id |-> RandomUUID(uuidCount + 1), at |-> CurrentEpochS(clock)]
    /\ IF tool = "v3" /\ cli.projectExists = "true"
       THEN /\ project' = [name |-> BaseName,
                           meta |-> EnsureMeta(projectJson, configYaml,
                                               projectYaml,
                                               RandomUUID(uuidCount + 1), clock),
                           errors |-> FALSE]
            /\ pc' = "new_done"
            /\ disk' = disk
       ELSE /\ disk' = [disk EXCEPT !.src = TRUE]
            /\ project' =
                  [name |-> BaseName,
                   meta |-> IF tool = "v3"
                            THEN NewFromEnsure(RandomUUID(uuidCount + 1), clock)
                            ELSE NewDocument(RandomUUID(uuidCount + 1), clock),
                   errors |-> FALSE]
            /\ pc' = "new_writing"
    /\ UNCHANGED <<runs, clock, projectJson, configYaml, projectYaml, bundle,
                   tool, loadResult, buildResult, cycle, prevBuild, lastBuild>>

\* Promise.all of the writes: project.yaml, src/index.ts (and tsconfig.json)
NewWrite ==
    /\ pc = "new_writing"
    /\ projectYaml' = YamlStringify(project.meta)
    /\ disk' = [disk EXCEPT !.index = INDEX_TS_TEMPLATE]
    /\ pc' = "new_done"
    /\ UNCHANGED <<cli, runs, clock, projectJson, configYaml, bundle, tool,
                   project, loadResult, buildResult, uuidCount, fresh, cycle,
                   prevBuild, lastBuild>>

\* the new command on a directory: empty, or holding some of src/ (with
\* somebody's index.ts), project.yaml and, for 3.x, project.json
NewInit ==
    /\ clock = StartClock
    /\ tool \in {"v3", "v4"}
    /\ projectJson \in {NoFile, File(JsonV2)}
    /\ tool = "v4" => projectJson = NoFile
    /\ configYaml = NoFile
    /\ projectYaml \in {NoFile, File(YamlFull)}
    /\ bundle = [exists |-> FALSE, file |-> "", header |-> <<>>]
    /\ pc = "new"
    /\ project = NoProject
    /\ loadResult = "none"
    /\ buildResult = "none"
    /\ uuidCount = 0
    /\ fresh = [id |-> RandomUUID(0), at |-> 0]
    /\ cycle = NoCycle
    /\ prevBuild = NoBuild
    /\ lastBuild = NoBuild
    /\ cli = NoCommand
    /\ runs = NoRuns
    /\ disk \in {NoDisk, [NoDisk EXCEPT !.src = TRUE, !.index = "user"]}
NewNext ==
    \/ NewPrompt
    \/ AccessSettle
    \/ NewDecide
    \/ NewWrite
    \/ Tick
NewSpec == NewInit /\ [][NewNext]_vars

\* ------------------------------------------- the type-definition cache
\* hoursOld < 24
FreshHours == 24
Day == FreshHours * 3600 * TicksPerSecond
\* age = Date.now() - stats.mtimeMs
Age(file, now) == now - file.mtime

\* faulty variant: a file of exactly 24 hours still counts as fresh
IsFreshInclusive(age) == age <= Day

\* hoursOld = age / (1000 * 60 * 60); hoursOld < 24
IsFresh(age) == age < Day

\* one call of ensureTypesFile (4.x) or fetchExternalTypes(forceRefresh)
\* (3.x): where it stands, whether a refresh was asked for, what it found on
\* disk (existence and age) when it looked, and how many requests it has sent
NewCall(refresh) ==
    [pc |-> "start", refresh |-> refresh, found |-> FALSE, age |-> 0,
     fetches |-> 0]
TheCall == runs[1]
Fetching == {"fetching", "fetching_again"}

\* 4.x: stat; a young file is used as it is, an old one is fetched in the try
\* block, and a failed stat lands in the catch block, which fetches.
\* 3.x: unless a refresh is forced, an existing young file is used; otherwise
\* the request is sent.
LookAtCache ==
    /\ pc = "types"
    /\ TheCall.pc = "start"
    /\ LET looks == tool = "v4" \/ ~TheCall.refresh
           found == looks /\ disk.types.exists
           age == IF found THEN Age(disk.types, clock) ELSE 0
           cached == found /\ IsFresh(age)
       IN  runs' = <<[TheCall EXCEPT
                        !.found = found, !.age = age,
                        !.pc = IF cached THEN "done" ELSE "fetching",
                        !.fetches = IF cached THEN 0 ELSE 1]>>
    /\ UNCHANGED <<disk, cli, clock, projectJson, configYaml, projectYaml, bundle,
                   tool, pc, project, loadResult, buildResult, uuidCount, fresh,
                   cycle, prevBuild, lastBuild>>

\* the response arrives and is written to external/script-types.d.ts
FetchOk ==
    /\ pc = "types"
    /\ TheCall.pc \in Fetching
    /\ disk' = [disk EXCEPT !.types = [exists |-> TRUE, mtime |-> clock,
                                        writes |-> @.writes + 1]]
    /\ runs' = <<[TheCall EXCEPT !.pc = "done"]>>
    /\ UNCHANGED <<cli, clock, projectJson, configYaml, projectYaml, bundle,
                   tool, pc, project, loadResult, buildResult, uuidCount, fresh,
                   cycle, prevBuild, lastBuild>>

\* the request fails (no connection, HTTP status, empty body) before anything
\* is written.  3.x rejects.  4.x: thrown inside the try block, the error is
\* caught by the catch meant for stat, which calls fetchExternalTypes again;
\* thrown from the catch block it rejects ensureTypesFile
FetchFail ==
    /\ pc = "types"
    /\ TheCall.pc \in Fetching
    /\ runs' = <<IF tool = "v4" /\ TheCall.pc = "fetching" /\ TheCall.found
                 THEN [TheCall EXCEPT !.pc = "fetching_again",
                                      !.fetches = @ + 1]
                 ELSE [TheCall EXCEPT !.pc = "rejected"]>>
    /\ UNCHANGED <<disk, cli, clock, projectJson, configYaml, projectYaml, bundle,
                   tool, pc, project, loadResult, buildResult, uuidCount, fresh,
                   cycle, prevBuild, lastBuild>>

\* the ages a cached file may have when the command starts: new, a tick
\* short of 24 hours, exactly 24 hours, a tick more
CacheAges == {0, Day - 1, Day, Day + 1}
TypesInit ==
    /\ clock = StartClock
    /\ tool \in {"v3", "v4"}
    /\ projectJson = NoFile
    /\ configYaml = NoFile
    /\ projectYaml = NoFile
    /\ bundle = [exists |-> FALSE, file |-> "", header |-> <<>>]
    /\ pc = "types"
    /\ project = NoProject
    /\ loadResult = "none"
    /\ buildResult = "none"
    /\ uuidCount = 0
    /\ fresh = [id |-> RandomUUID(0), at |-> 0]
    /\ cycle = NoCycle
    /\ prevBuild = NoBuild
    /\ lastBuild = NoBuild
    /\ cli = NoCommand
    \* only the 3.x commands have the --refresh option
    /\ \E refresh \in BOOLEAN :
          /\ refresh => tool = "v3"
          /\ runs = <<NewCall(refresh)>>
    /\ \E file \in {NoTypes} \cup
                    {[exists |-> TRUE, mtime |-> StartClock - a, writes |-> 0] :
                         a \in CacheAges} :
          disk = [NoDisk EXCEPT !.types = file]
TypesNext ==
    \/ LookAtCache
    \/ FetchOk
    \/ FetchFail
    \/ Tick
TypesSpec == TypesInit /\ [][TypesNext]_vars

\* ------------------------------------------- descriptor text and Document
\* The text of a file is a sequence of items.  An item of YAML text is one
\* top-level entry with the lines it is written on; anything else (a marker
\* of the script header, a line of code) is an item of style "code".
Plain(k, v) == [key |-> k, style |-> "plain", lines |-> <<v>>, num |-> 0]
Number(k, n) == [key |-> k, style |-> "number", lines |-> <<>>, num |-> n]
Literal(k, ls) == [key |-> k, style |-> "literal", lines |-> ls, num |-> 0]
Folded(k, ls) == [key |-> k, style |-> "folded", lines |-> ls, num |-> 0]
Comment(c) == [key |-> "#", style |-> "comment", lines |-> <<c>>, num |-> 0]
Mark(str) == [key |-> str, style |-> "code", lines |-> <<>>, num |-> 0]

\* a folded block scalar's lines are joined by spaces into one line
RECURSIVE JoinLines(_)
JoinLines(ls) ==
    IF Len(ls) = 0 THEN ""
    ELSE IF Len(ls) = 1 THEN ls[1]
    ELSE ls[1] \o " " \o JoinLines(Tail(ls))

\* one entry of the text as a node of the Document: the value it denotes and
\* the style it was written in
ParseEntry(e) ==
    [key |-> e.key, style |-> e.style,
     value |-> IF e.style = "folded" THEN <<JoinLines(e.lines)>> ELSE e.lines,
     num |-> e.num]
IsYaml(e) == e.style # "code"
\* parseDocument(text): never throws; what is not YAML is recorded as an error
ParseDocument(text) ==
    LET entries == SelectSeq(text, IsYaml)
    IN  [contents |-> [i \in DOMAIN entries |-> ParseEntry(entries[i])],
         errors |-> \E i \in DOMAIN text : ~IsYaml(text[i])]

\* faulty variant: the styles of the nodes are not kept, every block scalar is
\* written folded
DocToStringFolding(doc) ==
    [i \in DOMAIN doc.contents |->
        [key |-> doc.contents[i].key,
         style |-> IF doc.contents[i].style = "literal" THEN "folded"
                   ELSE doc.contents[i].style,
         lines |-> doc.contents[i].value, num |-> doc.contents[i].num]]

\* Document.toString() of a Document without errors: every node in the style
\* it was read in; a folded scalar is folded anew from its value
DocToString(doc) ==
    [i \in DOMAIN doc.contents |->
        [key |-> doc.contents[i].key, style |-> doc.contents[i].style,
         lines |-> doc.contents[i].value, num |-> doc.contents[i].num]]

DocHas(doc, k) == \E i \in DOMAIN doc.contents : doc.contents[i].key = k
DocNode(doc, k) ==
    doc.contents[CHOOSE i \in DOMAIN doc.contents : doc.contents[i].key = k]
\* meta.get("name")
DocGet(doc, k) == DocNode(doc, k).value[1]
\* meta.set(k, n) for a number n
DocSet(doc, k, n) ==
    LET node == [key |-> k, style |-> "number", value |-> <<>>, num |-> n]
    IN  [doc EXCEPT !.contents =
            IF DocHas(doc, k)
            THEN [i \in DOMAIN @ |-> IF @[i].key = k THEN node ELSE @[i]]
            ELSE Append(@, node)]

\* the descriptors a session may start from: a name, perhaps a comment, a
\* description in one of the scalar styles, perhaps a stamp of an old build
Descriptions ==
    {Plain("description", "bar"),
     Literal("description", <<"line one", "line two">>),
     Literal("description", <<"line one", "", "  indented">>),
     Folded("description", <<"line one", "line two">>)}
Texts ==
    {<<Plain("name", "My Script")>> \o c \o <<d>> \o u :
        c \in {<<>>, <<Comment("notes")>>},
        d \in Descriptions,
        u \in {<<>>, <<Number("updatedAt", 1)>>}}

\* ------------------------------------------------- the bundle and its import
OpenMark == Mark("/*---")
CloseMark == Mark("---*/")
\* the comment generateScriptHeader puts after the header
Banner(name) == Mark("/** " \o name \o " Built with NovelAI Script Build System */")
\* generateScriptHeader(meta) as text
ScriptHeaderText(meta) ==
    <<OpenMark>> \o DocToString(meta) \o <<CloseMark, Banner(DocGet(meta, "name"))>>
\* what the bundler may emit for the sources: code, and code with a comment
\* that holds the text of the header's end marker
Bodies ==
    {<<Mark("let a=1")>>,
     <<Mark("let a=1"), CloseMark, Mark("let b=2")>>}

Positions(text, item) == {i \in DOMAIN text : text[i] = item}
Smallest(S) == CHOOSE x \in S : \A y \in S : x <= y
Largest(S) == CHOOSE x \in S : \A y \in S : x >= y
NoMatch == [matched |-> FALSE, front |-> <<>>, script |-> <<>>]
\* FRONTMATTER.exec(text): the match starts at the first opening marker; both
\* groups are [\s\S]+, greedy and not empty, so the first group runs to the
\* last end marker that still has text after it
FrontMatterExec(text) ==
    IF Positions(text, OpenMark) = {} THEN NoMatch
    ELSE LET open == Smallest(Positions(text, OpenMark))
             ends == {j \in Positions(text, CloseMark) :
                         j > open + 1 /\ j < Len(text)}
         IN  IF ends = {} THEN NoMatch
             ELSE [matched |-> TRUE,
                   front |-> SubSeq(text, open + 1, Largest(ends) - 1),
                   script |-> SubSeq(text, Largest(ends) + 1, Len(text))]

\* prettier's format(script, {parser: "typescript"})
Pretty(item) == IF item = Mark("let a=1") THEN Mark("let a = 1;") ELSE item
Format(script) == [i \in DOMAIN script |-> Pretty(script[i])]

\* nibs build, first half: loadProject reads project.yaml into a Document
DocLoad ==
    /\ pc = "doc_idle"
    /\ lastBuild.n < MaxBuilds
    /\ project' = [name |-> BaseName, meta |-> ParseDocument(projectYaml.data),
                   errors |-> ParseDocument(projectYaml.data).errors]
    /\ cycle' = BeginCycle("build", <<>>)
    /\ cli' = Started("build")
    /\ pc' = "doc_loaded"
    /\ UNCHANGED <<disk, runs, clock, projectJson, configYaml, projectYaml, bundle,
                   tool, loadResult, buildResult, uuidCount, fresh, prevBuild,
                   lastBuild>>

\* nibs build, second half: buildProject stamps updatedAt, the bundler writes
\* the header and its output to the bundle, and meta.toString() is written to
\* project.yaml.  toString() of a Document with errors throws while the
\* header is made, and nothing is written
DocBuild ==
    /\ pc = "doc_loaded"
    /\ LET meta == DocSet(project.meta, "updatedAt", CurrentEpochS(clock))
       IN  /\ project' = [project EXCEPT !.meta = meta]
           /\ IF meta.errors
              THEN /\ cli' = [cli EXCEPT !.exit = "nonzero"]
                   /\ UNCHANGED <<disk, bundle, projectYaml, lastBuild>>
              ELSE /\ \E body \in Bodies :
                        disk' = [disk EXCEPT !.script =
                                   [exists |-> TRUE,
                                    text |-> ScriptHeaderText(meta) \o body]]
                   /\ bundle' = [exists |-> TRUE,
                                 file |-> KebabCase(DocGet(meta, "name")) \o ".naiscript",
                                 header |-> DocToString(meta)]
                   /\ projectYaml' = File(DocToString(meta))
                   /\ lastBuild' = Persisted(<<>>, File(DocToString(meta)),
                                             CurrentEpochS(clock))
                   /\ cli' = [cli EXCEPT !.exit = "zero"]
    /\ pc' = "doc_idle"
    /\ UNCHANGED <<runs, clock, projectJson, configYaml, tool, loadResult,
                   buildResult, uuidCount, fresh, cycle, prevBuild>>

\* nibs import <naiscript>: access; importNaiscript reads the file, matches
\* FRONTMATTER, parses the front matter, formats the script and takes the
\* directory's name from the name field.  An unreadable file exits with 1, a
\* text that does not match throws and the command exits with 2
ImportParse ==
    /\ pc = "doc_idle"
    /\ LET matches == FrontMatterExec(disk.script.text)
           frontMatter == ParseDocument(matches.front)
       IN  IF ~disk.script.exists
           THEN /\ cli' = [NoCommand EXCEPT !.cmd = "import", !.exit = "1"]
                /\ pc' = "imp_failed"
                /\ runs' = NoRuns
           ELSE IF ~matches.matched \/ ~DocHas(frontMatter, "name")
           THEN /\ cli' = [NoCommand EXCEPT !.cmd = "import", !.exit = "2"]
                /\ pc' = "imp_failed"
                /\ runs' = NoRuns
           ELSE /\ cli' = [NoCommand EXCEPT !.cmd = "import"]
                /\ pc' = "imp_parsed"
                /\ runs' = <<[frontMatter |-> frontMatter,
                              formattedScript |-> Format(matches.script),
                              projectDir |-> KebabCase(DocGet(frontMatter, "name"))]>>
    /\ UNCHANGED <<disk, clock, projectJson, configYaml, projectYaml, bundle,
                   tool, project, loadResult, buildResult, uuidCount, fresh,
                   cycle, prevBuild, lastBuild>>

\* mkdir(join(projectDir, "src"), {recursive: true})
ImportMkdir ==
    /\ pc = "imp_parsed"
    /\ disk' = [disk EXCEPT !.imported.dir = runs[1].projectDir]
    /\ pc' = "imp_dir"
    /\ UNCHANGED <<cli, runs, clock, projectJson, configYaml, projectYaml, bundle,
                   tool, project, loadResult, buildResult, uuidCount, fresh,
                   cycle, prevBuild, lastBuild>>

\* writeFile(project.yaml, frontMatter.toString()); toString() of a Document
\* with errors throws, and the command exits with 2
ImportWriteYaml ==
    /\ pc = "imp_dir"
    /\ IF runs[1].frontMatter.errors
       THEN /\ cli' = [cli EXCEPT !.exit = "2"]
            /\ pc' = "imp_failed"
            /\ disk' = disk
       ELSE /\ disk' = [disk EXCEPT !.imported.yaml =
                          File(DocToString(runs[1].frontMatter))]
            /\ pc' = "imp_yaml"
            /\ cli' = cli
    /\ UNCHANGED <<runs, clock, projectJson, configYaml, projectYaml, bundle,
                   tool, project, loadResult, buildResult, uuidCount, fresh,
                   cycle, prevBuild, lastBuild>>

\* writeFile(src/index.ts, formattedScript) and writeTsConfig(projectDir)
ImportWriteIndex ==
    /\ pc = "imp_yaml"
    /\ disk' = [disk EXCEPT !.imported.index =
                   [exists |-> TRUE, text |-> runs[1].formattedScript]]
    /\ cli' = [cli EXCEPT !.exit = "zero"]
    /\ pc' = "imp_done"
    /\ UNCHANGED <<runs, clock, projectJson, configYaml, projectYaml, bundle,
                   tool, project, loadResult, buildResult, uuidCount, fresh,
                   cycle, prevBuild, lastBuild>>

\* a project of the 4.x tool with a descriptor written by hand, and perhaps
\* a .naiscript file that no build of the tool has written; prevBuild keeps
\* the descriptor as the session found it
DocInit ==
    /\ clock = StartClock
    /\ tool = "v4"
    /\ projectJson = NoFile
    /\ configYaml = NoFile
    /\ projectYaml \in {File(text) : text \in Texts}
    /\ bundle = [exists |-> FALSE, file |-> "", header |-> <<>>]
    /\ pc = "doc_idle"
    /\ project = NoProject
    /\ loadResult = "none"
    /\ buildResult = "none"
    /\ uuidCount = 0
    /\ fresh = [id |-> RandomUUID(0), at |-> 0]
    /\ cycle = NoCycle
    /\ prevBuild = [NoBuild EXCEPT !.yaml = projectYaml]
    /\ lastBuild = NoBuild
    /\ cli = NoCommand
    /\ runs = NoRuns
    /\ disk \in {NoDisk,
                 [NoDisk EXCEPT !.script =
                     [exists |-> TRUE, text |-> <<Mark("let a=1")>>]]}
DocNext ==
    \/ DocLoad
    \/ DocBuild
    \/ ImportParse
    \/ ImportMkdir
    \/ ImportWriteYaml
    \/ ImportWriteIndex
    \/ Tick
DocSpec == DocInit /\ [][DocNext]_vars

\* a build --watch session of the 3.0 tool on one project directory
FsWatchInit ==
    /\ clock = StartClock
    /\ tool = "v3"
    /\ projectJson \in {NoFile, File(JsonV1), File(JsonV2)}
    /\ configYaml = NoFile
    /\ projectYaml \in {NoFile, File(YamlFull)}
    /\ bundle = [exists |-> FALSE, file |-> "", header |-> <<>>]
    /\ pc = "fs_watch"
    /\ project = NoProject
    /\ loadResult = "none"
    /\ buildResult = "none"
    /\ uuidCount = 0
    /\ fresh = [id |-> RandomUUID(0), at |-> 0]
    /\ cycle = NoCycle
    /\ prevBuild = NoBuild
    /\ lastBuild = NoBuild
    /\ cli = NoCommand
    /\ runs = [r \in 1..MaxRuns |-> IdleRun]
    /\ disk = NoDisk
FsWatchNext ==
    \/ FsChange
    \/ FsEnsure
    \/ FsBundleOk
    \/ FsBundleFail
    \/ FsWriteOk
    \/ FsWriteFail
    \/ Tick
FsWatchSpec == FsWatchInit /\ [][FsWatchNext]_vars

\* the 4.x tool alone, with a fresh type cache; the bundler's watcher reports
\* every change of a watched file, so a cycle it owes does start; a run of the
\* bundler ends, with a bundle or with an error, and the watcher then goes
\* back to waiting
WatchInit ==
    /\ Init
    /\ tool = "v4"
    /\ cli.types = "fresh"
    /\ projectYaml \in {NoFile, Malformed, File(YamlFull)}
WatchNext ==
    \/ TypesCached
    \/ LoadProject
    \/ BuildStamp
    \/ BundleOk
    \/ BundleFail
    \/ WriteOk
    \/ WriteFail
    \/ WatchOpen
    \/ EditYaml
    \/ SourceChange
    \/ WatchStart
    \/ WatchBundleOk
    \/ WatchBundleError
    \/ WatchEnd
    \/ WatchEndWriteFail
    \/ WatchSettle
    \/ WatchClose
    \/ Tick
WatchSpec ==
    /\ WatchInit
    /\ [][WatchNext]_vars
    /\ WF_vars(WatchStart)
    /\ WF_vars(WatchBundleOk \/ WatchBundleError)
    /\ WF_vars(WatchEnd \/ WatchEndWriteFail \/ WatchSettle)

\* ================================================================== claims
MetaFields ==
    {"compatibilityVersion", "id", "name", "version", "createdAt", "author",
     "description", "memoryLimit", "updatedAt", "config"}
Readable(f) == f.exists /\ f.ok
Corrupt(f) == f.exists /\ ~f.ok
\* a load has just returned a record and nothing has touched it since
JustLoaded == pc = "loaded" /\ loadResult = "ok"
AllAbsent == ~projectJson.exists /\ ~configYaml.exists /\ ~projectYaml.exists
SomeDescriptor == Readable(projectJson) \/ Readable(projectYaml)
\* some readable descriptor holds field k / the value the highest-priority one holds
Stored(k) ==
    \/ Readable(projectYaml) /\ Has(projectYaml.data, k)
    \/ Readable(projectJson) /\ Has(projectJson.data, k)
StoredValue(k) ==
    IF Readable(projectYaml) /\ Has(projectYaml.data, k)
    THEN Get(projectYaml.data, k)
    ELSE Get(projectJson.data, k)

\* C1: whenever a load of a directory holding a readable descriptor returns a
\* record with an identity, its id and createdAt are values stored on disk,
\* those of the highest-priority source holding them (project.yaml over
\* project.json), and the id is not the one randomUUID() produced during that
\* load.
C1_LoadKeepsStoredIdentity ==
    (JustLoaded /\ SomeDescriptor) =>
        /\ Has(project.meta, "id") =>
              /\ Stored("id")
              /\ Get(project.meta, "id") = StoredValue("id")
              /\ Get(project.meta, "id") # fresh.id
        /\ Has(project.meta, "createdAt") =>
              /\ Stored("createdAt")
              /\ Get(project.meta, "createdAt") = StoredValue("createdAt")

\* the value the precedence defaults < project.json < config.yaml < project.yaml
\* gives field k, an absent or unreadable source defining nothing
DefaultValue(k) ==
    IF k = "id" THEN fresh.id
    ELSE IF k \in {"createdAt", "updatedAt"} THEN fresh.at
    ELSE Get(Defaults(fresh.id, 0), k)
JsonTier == IF Readable(projectJson) THEN MigrateLegacy(projectJson.data) ELSE <<>>
ByPrecedence(k) ==
    IF Readable(projectYaml) /\ Has(projectYaml.data, k)
        THEN Get(projectYaml.data, k)
    ELSE IF k = "config" /\ Readable(configYaml) THEN configYaml.data
    ELSE IF Has(JsonTier, k) THEN Get(JsonTier, k)
    ELSE DefaultValue(k)

\* C2: after ensureProject every metadata field holds the value of the
\* highest-priority source that defines it (defaults < project.json <
\* config.yaml, for config only < project.yaml); an absent source overrides
\* nothing.
C2_MergePrecedence ==
    (JustLoaded /\ tool = "v3") =>
        \A k \in MetaFields :
            Has(project.meta, k) /\ Get(project.meta, k) = ByPrecedence(k)

\* C3: with a project.json that has a license field and no project.yaml, the
\* resolved description is the project.json description (empty when it has
\* none) followed by " License: <license>", and the record has no license and
\* no sourceFiles key.
C3_LicenseMigration ==
    (JustLoaded /\ tool = "v3" /\ Readable(projectJson)
        /\ Has(projectJson.data, "license") /\ ~projectYaml.exists) =>
        /\ Get(project.meta, "description") =
              (IF Has(projectJson.data, "description")
               THEN Get(projectJson.data, "description") ELSE "")
                  \o " License: " \o Get(projectJson.data, "license")
        /\ ~Has(project.meta, "license")
        /\ ~Has(project.meta, "sourceFiles")

CarriesCompat(o) ==
    Has(o, "compatibilityVersion") /\ Get(o, "compatibilityVersion") = COMPAT_VERSION

\* C4: the in-memory record after a load, the metadata in the header of a
\* written bundle and the project.yaml written back by a build all carry
\* compatibilityVersion = "naiscript-1.0", whatever was read from disk.
C4_CompatVersionForced ==
    /\ (loadResult = "ok" /\ ~project.errors) => CarriesCompat(project.meta)
    /\ bundle.exists => CarriesCompat(bundle.header)
    /\ lastBuild.n > 0 => CarriesCompat(lastBuild.yaml.data)

\* the descriptor files the running tool reads
ReadsCorrupt ==
    IF tool = "v3"
    THEN Corrupt(projectJson) \/ Corrupt(configYaml) \/ Corrupt(projectYaml)
    ELSE Corrupt(projectYaml)

\* C5: when a descriptor file the loader reads exists and cannot be parsed,
\* the load does not hand the caller a clean record: it fails, or (v4) the
\* Document it returns carries the parse errors.
C5_CorruptFileFailsLoad ==
    (pc = "loaded" /\ ReadsCorrupt) => (loadResult = "error" \/ project.errors)

FullyDefaulted(meta) ==
    /\ Keys(meta) = MetaFields
    /\ Get(meta, "name") = BaseName
    /\ Get(meta, "memoryLimit") = DefaultMemoryLimit
    /\ Get(meta, "author") = "Unknown"
    /\ Get(meta, "config") = <<>>
    /\ Get(meta, "version") = "0.0.0"
    /\ Get(meta, "description") = ""
    /\ Get(meta, "compatibilityVersion") = COMPAT_VERSION

C7_FailedBundleLeavesDescriptor ==
    (cycle.kind = "build" /\ cycle.bundler = "failed" /\ ~cycle.edited) =>
        /\ buildResult = "threw"
        /\ ~cycle.attempted
        /\ projectYaml = cycle.yamlBefore

C7_Witness ==
    /\ cycle.kind = "build" /\ cycle.bundler = "failed" /\ buildResult = "threw"
    /\ Readable(projectYaml)
    /\ Has(projectYaml.data, "updatedAt")
    /\ Get(project.meta, "updatedAt") # Get(projectYaml.data, "updatedAt")

\* C8: a one-shot build whose bundle was written has called writeFile for the
\* descriptor and returns true whether or not that write succeeded; this holds
\* again for the build that follows a build whose write failed.
C8_BuildTrueDespiteWriteFailure ==
    (cycle.kind = "build" /\ cycle.bundler = "ok" /\ pc # "writing") =>
        /\ cycle.attempted
        /\ buildResult = "true"

C8_Witness ==
    /\ cycle.kind = "build" /\ cycle.bundler = "ok" /\ pc = "exited"
    /\ cycle.afterFailedWrite
    /\ cycle.attempted /\ ~cycle.written
    /\ buildResult = "true"

OtherFields == (MetaFields \cup {"license", "sourceFiles"}) \ {"updatedAt"}
OnlyUpdatedAtDiffers(a, b) == \A k \in OtherFields : SameField(a, b, k)
InCycle == pc \in {"bundling", "writing", "w_building", "w_bundled", "w_error"}

\* C9: of two consecutive builds that persisted the descriptor (one-shot
\* load + buildProject, or watch cycles), the persisted id and createdAt are
\* the same and, when the builds are more than one second apart, the second
\* updatedAt is strictly greater; a build changes no field but updatedAt, in
\* the record it was given and in the descriptor it writes.
C9_ConsecutiveBuilds ==
    /\ prevBuild.n > 0 =>
          /\ SameField(prevBuild.yaml.data, lastBuild.yaml.data, "id")
          /\ SameField(prevBuild.yaml.data, lastBuild.yaml.data, "createdAt")
          /\ lastBuild.at > prevBuild.at + TicksPerSecond =>
                Get(lastBuild.yaml.data, "updatedAt")
                    > Get(prevBuild.yaml.data, "updatedAt")
    /\ lastBuild.n > 0 => OnlyUpdatedAtDiffers(lastBuild.yaml.data, lastBuild.from)
    /\ InCycle => OnlyUpdatedAtDiffers(project.meta, cycle.metaBefore)

C9_Witness ==
    /\ prevBuild.n > 0
    /\ lastBuild.at > prevBuild.at + TicksPerSecond
    /\ Has(lastBuild.yaml.data, "id")
    /\ Get(lastBuild.yaml.data, "updatedAt") > Get(prevBuild.yaml.data, "updatedAt")

\* C10: once a build has stamped the record, its updatedAt is at least the
\* updatedAt it had before the build and at least its createdAt, whatever
\* descriptor was read from disk.
C10_TimestampOrdering ==
    (InCycle /\ Has(project.meta, "updatedAt")) =>
        /\ Has(cycle.metaBefore, "updatedAt") =>
              Get(project.meta, "updatedAt") >= Get(cycle.metaBefore, "updatedAt")
        /\ Has(project.meta, "createdAt") =>
              Get(project.meta, "updatedAt") >= Get(project.meta, "createdAt")

\* the header of the bundle written in a watch cycle is the descriptor as it
\* was on disk when the cycle started, stamped with the time of START
HeaderFromDisk ==
    (cycle.kind = "watch" /\ pc = "w_bundled") =>
        /\ project.meta = SetKey(cycle.yamlBefore.data, "updatedAt",
                                 CurrentEpochS(cycle.stampAt))
        /\ bundle.header = project.meta

\* C11: after project.yaml has been edited while the watcher is idle, the next
\* build cycle starts (unless the session is closed first); in every watch
\* cycle the START handling has replaced Project.meta with the descriptor read
\* from disk before the header is generated, so the bundle written in the
\* cycle carries the edited values.
C11_WatchPicksUpEdits ==
    /\ [] HeaderFromDisk
    /\ (pc = "w_idle" /\ cycle.edited) ~> (pc \in {"w_building", "exited"})

C11_Witness ==
    /\ cycle.kind = "watch" /\ cycle.afterEdit /\ pc = "w_bundled"
    /\ Get(bundle.header, "name") = "My Script"
    /\ Get(cycle.yamlBefore.data, "name") = "My Script"

\* C13: in a watch session project.yaml is written only at the end of a cycle
\* in which the bundler reported no error: a cycle whose bundler emitted ERROR
\* writes nothing.
C13_WatchPersistsOnlyOnSuccess ==
    (cycle.kind = "watch" /\ cycle.bundler = "failed") =>
        /\ ~cycle.attempted
        /\ ~cycle.written

\* C14: when a signal ends a watch session, close() has been called on the
\* watcher by the time the process exits, the process then exits, and no build
\* cycle is in progress or starts once close() has been called.
C14_ShutdownReleasesWatchers ==
    /\ [](cli.closed => pc = "exited")
    /\ [][(pc \in WatchPcs /\ pc' \notin WatchPcs) =>
             (cli'.closed /\ pc' = "exited" /\ cli'.exit = "zero")]_vars

C14_Witness ==
    /\ cli.cmd = "watch" /\ cli.closed /\ pc = "exited"
    /\ cycle.kind = "watch" /\ cycle.bundler = "pending"

\* C15: a build or watch command that finds a cached type-definition file
\* (fresh or older than 24 hours) never ends before it has called the loader,
\* whether or not the fetch fails.
C15_StaleCacheDoesNotBlock ==
    (tool = "v4" /\ cli.cmd \in Commands /\ pc = "exited"
        /\ cli.types \in {"fresh", "stale"}) =>
        loadResult # "none"

\* C16: when the build or watch command cannot load project.yaml, it performs
\* no build, opens no watcher and the process exits with a non-zero code.
C16_ConfigErrorExitsNonZero ==
    (tool = "v4" /\ cli.cmd \in Commands /\ pc = "exited"
        /\ loadResult = "error") =>
        /\ cli.exit = "nonzero"
        /\ cycle.kind = "none"
        /\ ~cli.closed

\* C17: the one-shot build command exits with code 0 exactly when the load and
\* buildProject both succeeded, a failed write-back of the descriptor
\* included, and with a non-zero code otherwise.
C17_BuildExitCode ==
    (cli.cmd = "build" /\ pc = "exited") =>
        /\ cli.exit \in {"zero", "nonzero"}
        /\ cli.exit = "zero" <=> (loadResult = "ok" /\ buildResult = "true")

C17_Witness ==
    /\ tool = "v4" /\ cli.cmd = "build" /\ pc = "exited"
    /\ cli.exit = "zero"
    /\ cycle.bundler = "ok" /\ cycle.attempted /\ ~cycle.written

\* C18: the bundle a build writes is named <k>.naiscript, k being the
\* descriptor's name in lower case with white space replaced by hyphens.
C18_OutputNamedFromMetaName ==
    (pc \in {"writing", "w_bundled"} /\ Has(project.meta, "name")) =>
        bundle.file = KebabCase(Get(project.meta, "name")) \o ".naiscript"

\* C12: at most one build of the project root is in progress at any time:
\* no two calls of the load-stamp-bundle-write sequence overlap.
C12_NoOverlappingBuilds ==
    \A r1, r2 \in DOMAIN runs : (InFlight(r1) /\ InFlight(r2)) => r1 = r2

\* C19: once a build has written project.yaml, every later load of the
\* directory yields exactly the content of project.yaml, whatever project.json
\* and config.yaml hold.
C19_LegacyFilesIgnoredAfterBuild ==
    (JustLoaded /\ lastBuild.n > 0 /\ projectYaml = lastBuild.yaml) =>
        \A k \in Keys(project.meta) \cup Keys(projectYaml.data) :
            SameField(project.meta, projectYaml.data, k)

\* the description a load may return for a project.json with a license: the
\* one project.yaml holds, or else the project.json description followed by
\* the license suffix once
SingleSuffix ==
    IF Readable(projectYaml) /\ Has(projectYaml.data, "description")
    THEN Get(projectYaml.data, "description")
    ELSE Str(projectJson.data, "description") \o " License: "
             \o Get(projectJson.data, "license")

\* C20: the migration step applied to a migrated record changes nothing, for
\* the project.json of every directory and every record held in memory; a load after
\* a build never returns a description with the license suffix added twice.
C20_MigrationIdempotent ==
    /\ MigrateLegacy(MigrateLegacy(projectJson.data))
          = MigrateLegacy(projectJson.data)
    /\ MigrateLegacy(MigrateLegacy(project.meta)) = MigrateLegacy(project.meta)
    /\ (tool = "v3" /\ JustLoaded /\ Readable(projectJson)
            /\ Truthy(projectJson.data, "license")) =>
          Get(project.meta, "description") = SingleSuffix

C20_Witness ==
    /\ tool = "v3" /\ JustLoaded /\ lastBuild.n > 0
    /\ Readable(projectJson) /\ Truthy(projectJson.data, "license")
    /\ Get(project.meta, "description") = "bar License: MIT"
    /\ Get(projectYaml.data, "description") = "bar License: MIT"

\* C23: in a watch session every cycle that starts brings the session back to
\* waiting (or the session is closed), whether the bundler wrote a bundle or
\* reported an error; the error of a failed cycle has been printed; and a
\* change seen after a failed cycle starts a new cycle.
C23_WatchSurvivesBuildError ==
    /\ (pc = "w_building") ~> (pc \in {"w_idle", "exited"})
    /\ []((cycle.kind = "watch" /\ cycle.bundler = "failed" /\ pc = "w_idle")
            => cycle.reported)
    /\ (pc = "w_idle" /\ cycle.bundler = "failed" /\ cli.invalid)
          ~> (pc \in {"w_building", "exited"})

\* C24: after a build cycle of the 4.x tool that wrote its bundle and its
\* descriptor, nobody having edited project.yaml meanwhile, the metadata in
\* the bundle's header equals the metadata written to project.yaml in that
\* cycle, updatedAt included.
C24_HeaderMatchesDescriptor ==
    (tool = "v4" /\ cycle.bundler = "ok" /\ cycle.written /\ ~cycle.edited) =>
        bundle.header = lastBuild.yaml.data

\* C26: the handling of END leaves the watcher owing no cycle unless a
\* watched file was changed from outside during the cycle: the write of
\* project.yaml at END starts no further cycle.
C26_WriteBackStartsNoCycle ==
    [][(pc \in {"w_bundled", "w_error"} /\ pc' = "w_idle" /\ ~cli.invalid)
          => ~cli'.invalid]_vars

\* C27: in a watch session, apart from edits made by hand, project.yaml
\* changes only in the handling of END, and becomes the content on disk at
\* that moment with updatedAt replaced (an edit made since START is kept);
\* Project.meta changes only in the handling of START.
C27_WriteBackOnlyStamps ==
    [][(pc \in WatchPcs /\ ~(cycle'.edited /\ ~cycle.edited)) =>
          /\ projectYaml' # projectYaml =>
                /\ pc \in {"w_bundled", "w_error"} /\ pc' = "w_idle"
                /\ projectYaml' = File(SetKey(projectYaml.data, "updatedAt",
                                              CurrentEpochS(clock)))
          /\ project' # project => (pc = "w_idle" /\ pc' = "w_building")]_vars

C27_Witness ==
    /\ pc = "w_idle" /\ cycle.kind = "watch" /\ cycle.written /\ cycle.edited
    /\ Has(cycle.yamlBefore.data, "name") /\ Has(project.meta, "name")
    /\ Get(cycle.yamlBefore.data, "name") = "foo"
    /\ Get(project.meta, "name") = "foo"
    /\ projectYaml = lastBuild.yaml
    /\ Get(projectYaml.data, "name") = "My Script"

Returned == pc = "types" /\ TheCall.pc \in {"done", "rejected"}

\* C25: a call has sent a request exactly when the cached file was missing,
\* was 24 hours old or older when the call looked at it, or a refresh was
\* asked for; a call that found a younger file and was not asked to refresh
\* has sent nothing and has left the file as it was.
C25_FetchExactlyWhenStale ==
    Returned =>
        /\ TheCall.fetches > 0 <=>
              \/ TheCall.refresh
              \/ ~TheCall.found
              \/ TheCall.age >= Day
        /\ (TheCall.found /\ TheCall.age < Day /\ ~TheCall.refresh) =>
              /\ TheCall.fetches = 0
              /\ disk.types.writes = 0

C25_Witness ==
    /\ Returned /\ tool = "v4"
    /\ TheCall.found /\ TheCall.age = Day
    /\ TheCall.fetches = 1 /\ disk.types.writes = 1

\* C30: one call of ensureTypesFile sends at most one request, whatever stat
\* and the request come to, and a failed request is handed to the caller.
C30_AtMostOneFetch ==
    pc = "types" =>
        /\ TheCall.fetches <= 1
        /\ TheCall.pc # "fetching_again"

\* C28: the new command run on a directory that already held src/ or
\* project.yaml has printed "Project already exists" and has left
\* project.yaml (its id and createdAt in particular) and src/index.ts as they
\* were.
C28_NewNeverClobbers ==
    (pc = "new_done" /\ (cycle.indexBefore # "none" \/ cycle.yamlBefore.exists)) =>
        /\ cli.said
        /\ projectYaml = cycle.yamlBefore
        /\ disk.index = cycle.indexBefore

\* C29: whatever the order in which the access checks settle,
\* checkExistingProject returns true exactly when one of the probed paths
\* exists.
C29_ExistsIffSomePathExists ==
    (pc = "new_checking" /\ cli.projectExists # "unknown") =>
        (cli.projectExists = "true" <=>
            \E i \in DOMAIN ProbedPaths : PathExists(ProbedPaths[i]))

\* the entries of a text other than the stamp of the build
Kept(text) == {text[i] : i \in {j \in DOMAIN text : text[j].key # "updatedAt"}}
KeptNodes(doc) ==
    {doc.contents[i] : i \in {j \in DOMAIN doc.contents :
                                  doc.contents[j].key # "updatedAt"}}
Originally == prevBuild.yaml.data

AfterTerminator(text) ==
    SubSeq(text, Smallest(Positions(text, CloseMark)) + 1, Len(text))

\* C22: when the import of a bundle that buildProject wrote has ended, it has
\* succeeded, the imported project.yaml is the metadata text of the bundle's
\* header and src/index.ts is the formatted text after the header's end
\* marker, whatever the body holds; the import of a file without a header has
\* failed and has created neither directory nor file.
C22_ImportRoundTrip ==
    (pc \in {"imp_done", "imp_failed"}) =>
        IF bundle.exists
        THEN /\ pc = "imp_done"
             /\ disk.imported.yaml = File(bundle.header)
             /\ disk.imported.index =
                   [exists |-> TRUE,
                    text |-> Format(AfterTerminator(disk.script.text))]
        ELSE /\ pc = "imp_failed"
             /\ disk.imported = NoImport
====
